---- MODULE Spec2Model ----
(***************************************************************************)
(* Verification model of rust-autograd's broadcast-aware gradient ops      *)
(* (src/ops/binary_ops.rs) and of the evaluation context (src/context.rs). *)
(*                                                                         *)
(* An NdArray is a record [shape, data]: shape is the sequence of axis     *)
(* lengths, data the elements in row-major (standard layout) order.        *)
(* Elements are integers: every value the model builds is a sum of small   *)
(* integers, which f32 represents exactly.                                 *)
(***************************************************************************)
EXTENDS Integers, Sequences, FiniteSets, TLC

\* The broadcast pipeline: a gradient value handed from one broadcast op to
\* the next, as the runtime does along a chain of nodes.
VARIABLES
    val,        \* the array the next op receives as its input 0 (gy)
    operand_shape,    \* the operand's shape: the reduction op's target
    bcast_shape,    \* the broadcast shape: the expansion op's target
    log,        \* the computations done so far, in order
    status      \* "ready", or "panicked" once a kernel has panicked

bvars == <<val, operand_shape, bcast_shape, log, status>>

\* Gradient construction: one binary-op node over two leaves, the gradient
\* nodes its op's grad builds, and their evaluation.
VARIABLES
    env,        \* the values of the leaf nodes x0, x1, gy, ggy
    ynode,      \* the node y = op(inputs), NoNode before it is built
    gxs,        \* what y's op returned from grad: one Option<Tensor> per input
    gvals,      \* the values of gxs, once evaluated
    dx,         \* the accumulated gradient of y w.r.t. one leaf, evaluated
    slot,       \* the input slot whose gradient node was differentiated again
    ggxs,       \* what that gradient node's op returned from grad
    ggvals,     \* the values of ggxs, once evaluated
    gggxs,      \* what the expansion node ggxs[1] returned from grad
    gggvals,    \* the values of gggxs, once evaluated
    pc          \* how far the construction has come

gvars == <<env, ynode, gxs, gvals, dx, slot, ggxs, ggvals, gggxs, gggvals,
           pc>>

\* The evaluation context (Context) and the last call made on it.
VARIABLES
    variables,  \* Context::variables: Tensor -> NdArray
    outputs,    \* Context::outputs: Tensor -> Result<NdArray, _>
    last,       \* the last call: its arguments, outcome, the maps before it,
                \* and the placeholder fed by a feed_input just before it
    crashed     \* a call has panicked

cvars == <<variables, outputs, last, crashed>>

\* The transposed convolution (src/ops/conv_ops/conv2d_transpose.rs): one
\* call of an op's compute, from its size arithmetic to its return.
VARIABLES
    build,      \* "debug" (overflow checks on) or "release" (wrapping)
    conv,       \* the op's fields: pad, stride, dilation
    dims,       \* batch_size, ych, xch, yh, yw, kh, kw of the inputs
    xsize,      \* get_xh!, get_xw! as computed: xh, xw
    kin,        \* the input arrays: gy and w (Conv2DTranspose), or g, the
                \* gradient of the output, gy as x, and w (FilterGrad)
    col_buf,    \* the column buffer col
    gx_buf,     \* the output buffer gx
    wpc,        \* worker i of the parallel loop: what it does next
    colw,       \* worker i: the positions of col it has written
    gxw,        \* worker i: the positions of gx it has written
    kret,       \* the returned array
    gw_buf,     \* Conv2DTransposeFilterGrad: the buffer gw
    gw_init,    \* the positions of gw that have been written
    fi,         \* the index i of the sequential sgemm loop
    kpc         \* how far the call has come

fvars == <<gw_buf, gw_init, fi>>
kvars == <<build, conv, dims, xsize, kin, col_buf, gx_buf, wpc, colw, gxw,
           kret, fvars, kpc>>
vars == <<bvars, gvars, cvars, kvars>>

\* ---------------------------------------------------------------- bounds
MaxRank == 2
MaxDim == 2
MaxSeed == 2
MaxSteps == 3
MaxBatch == 2       \* batch sizes 0..MaxBatch
MaxCh == 2          \* channel counts 1..MaxCh
MaxSpatial == 2     \* yh, yw, kh, kw in 1..MaxSpatial
MaxPad == 1         \* pad in 0..MaxPad
MaxStride == 2      \* stride, dilation in 1..MaxStride
UsizeBits == 6      \* usize is modelled UsizeBits wide

\* ------------------------------------------------------- array primitives
RECURSIVE Product(_)
Product(shape) ==
    IF shape = <<>> THEN 1 ELSE Head(shape) * Product(Tail(shape))

Min(m, n) == IF m < n THEN m ELSE n

NdArray(shape, data) == [shape |-> shape, data |-> data]

\* The value of an absent array (Option::None, or no result).
NullArr == [shape |-> <<>>, data |-> <<>>]
None == [some |-> FALSE, arr |-> NullArr]
Some(x) == [some |-> TRUE, arr |-> x]

\* Shapes of the inputs: every rank up to MaxRank, axis lengths 1..MaxDim.
Shapes == UNION {[1..r -> 1..MaxDim] : r \in 0..MaxRank}

\* Input arrays: pairwise distinct elements, so that a sum over the wrong
\* axis, or a misplaced element, shows in the data.
Ramp(shape, seed) ==
    NdArray(shape, [k \in 1..Product(shape) |-> seed * k])

\* Tensor::shape() evaluated: the axis lengths as a rank-1 array.
ShapeTensor(shape) == NdArray(<<Len(shape)>>, shape)

\* ndarray_ext::vec_as_shape: the elements of a rank-1 array, as axis lengths.
vec_as_shape(x) == [k \in 1..Product(x.shape) |-> x.data[k]]

\* ndarray_ext::is_scalar_shape
is_scalar_shape(shape) == shape = <<>> \/ shape = <<0>>

RECURSIVE SumRange(_, _, _, _)
\* data[first] + data[first + step] + ... (n terms)
SumRange(data, first, step, n) ==
    IF n = 0 THEN 0
    ELSE data[first] + SumRange(data, first + step, step, n - 1)

\* ndarray's fold_axis(Axis(axis), 0., |a, b| a + b): the axis is removed and
\* every element of the result is the sum along it. axis is 0-based and
\* must be < rank (the caller checks: ndarray panics otherwise).
fold_axis(x, axis) ==
    LET sh == x.shape
        r == Len(sh)
        n == sh[axis + 1]
        inner == Product(SubSeq(sh, axis + 2, r))
        outer == Product(SubSeq(sh, 1, axis))
    IN  NdArray(SubSeq(sh, 1, axis) \o SubSeq(sh, axis + 2, r),
                [p \in 1..(outer * inner) |->
                    SumRange(x.data,
                             ((p - 1) \div inner) * n * inner
                                 + ((p - 1) % inner) + 1,
                             inner, n)])

\* ndarray_ext::expand_dims / expand_dims_view: a length-1 axis is inserted
\* at (0-based) position axis; the elements keep their order. axis must be
\* <= rank (Vec::insert panics otherwise; the caller checks).
expand_dims(x, axis) ==
    NdArray(SubSeq(x.shape, 1, axis) \o <<1>>
                \o SubSeq(x.shape, axis + 1, Len(x.shape)),
            x.data)

\* ndarray's broadcast compatibility (dimension::upcast): the source may not
\* have more axes than the target; axes are aligned at the end; each source
\* axis equals the target axis or has length 1.
CanBroadcast(from, to) ==
    /\ Len(from) <= Len(to)
    /\ \A k \in 1..Len(from) :
           \/ from[k] = to[k + Len(to) - Len(from)]
           \/ from[k] = 1

RECURSIVE Unravel(_, _)
\* The multi-index (0-based) of 0-based flat offset p in an array of `shape`.
Unravel(p, shape) ==
    IF shape = <<>> THEN <<>>
    ELSE LET rest == Product(Tail(shape))
         IN  <<p \div rest>> \o Unravel(p % rest, Tail(shape))

RECURSIVE Ravel(_, _)
\* The 0-based flat offset of multi-index idx in an array of `shape`.
Ravel(idx, shape) ==
    IF shape = <<>> THEN 0
    ELSE Head(idx) * Product(Tail(shape)) + Ravel(Tail(idx), Tail(shape))

\* The (1-based) position in a `from`-shaped array that position p of its
\* broadcast to `to` reads: a length-1 source axis has stride 0.
BroadcastIndex(p, from, to) ==
    LET idx == Unravel(p - 1, to)
        d == Len(to) - Len(from)
        src == [k \in 1..Len(from) |->
                    IF from[k] = 1 THEN 0 ELSE idx[k + d]]
    IN  Ravel(src, from) + 1

\* ndarray's broadcast(target).to_owned(), for CanBroadcast(x.shape, target).
broadcast(x, target) ==
    NdArray(target,
            [p \in 1..Product(target) |->
                x.data[BroadcastIndex(p, x.shape, target)]])

\* ------------------------------------------------------ op::ComputeResult
\* One result per output: Ok(array) or Err(Delegate {to}).
Ok(x) == [tag |-> "Ok", to |-> 0, arr |-> x]
Delegate(i) == [tag |-> "Delegate", to |-> i, arr |-> NullArr]

\* What a call of compute comes to: the vector it returns, or a panic.
Returned(rets) == [panicked |-> FALSE, rets |-> rets]
Panicked == [panicked |-> TRUE, rets |-> <<>>]

\* ---------------------------------------------- PreprocessBinOpGrad::compute
\* The loop's state: `folded` (Option<NdArray>) and whether it panicked.
FoldState(folded, panicked) == [folded |-> folded, panicked |-> panicked]

\* The axis handed to fold_axis (line 56).
ReduceAxis(x_is_scalar, i) == IF x_is_scalar THEN 0 ELSE i

\* StoreFolded without the expand_dims of line 66: the squashed axis is
\* not put back.
NoExpandStoreFolded(x_is_scalar, ret, i) == [fits |-> TRUE, arr |-> ret]

\* What is swapped into `folded` after a fold (lines 62-67); FALSE in
\* `fits` is expand_dims's panic on an insertion point beyond the rank.
StoreFolded(x_is_scalar, ret, i) ==
    IF x_is_scalar THEN [fits |-> TRUE, arr |-> ret]
    ELSE IF i <= Len(ret.shape)
         THEN [fits |-> TRUE, arr |-> expand_dims(ret, i)]
         ELSE [fits |-> FALSE, arr |-> NullArr]

\* One iteration of the loop over x_shape.iter().zip(gy_shape) (lines 52-74).
FoldBody(i, x_axis, gy_axis, gy, x_is_scalar, st) ==
    IF x_axis < gy_axis
    THEN IF x_axis = 1
         THEN LET from == IF st.folded.some THEN st.folded.arr ELSE gy
                  axis == ReduceAxis(x_is_scalar, i)
              IN  IF axis >= Len(from.shape)
                  THEN FoldState(st.folded, TRUE)
                  ELSE LET kept == StoreFolded(x_is_scalar,
                                               fold_axis(from, axis), i)
                       IN  IF kept.fits
                           THEN FoldState(Some(kept.arr), FALSE)
                           ELSE FoldState(st.folded, TRUE)
         ELSE FoldState(st.folded, TRUE)
    ELSE st

RECURSIVE FoldLoop(_, _, _, _, _, _)
\* Iterations i .. n-1 of the loop, n the length of the shorter shape.
FoldLoop(i, n, x_shape, gy, x_is_scalar, st) ==
    IF i >= n \/ st.panicked THEN st
    ELSE FoldLoop(i + 1, n, x_shape, gy, x_is_scalar,
                  FoldBody(i, x_shape[i + 1], gy.shape[i + 1], gy,
                           x_is_scalar, st))

\* OnEqualShape returning a copy of gy instead of the delegate marker.
CopyOnEqualShape(gy) == Ok(gy)

\* The result when the target shape equals gy's shape (lines 38-40): the
\* forward path didn't cause broadcast.
OnEqualShape(gy) == Delegate(0)

\* Inputs: [gy, target_shape].
PreprocessBinOpGrad_compute(gy, xs1) ==
    LET x_shape_ == vec_as_shape(xs1)
        gy_shape == gy.shape
    IN  IF x_shape_ = gy_shape
        THEN Returned(<<OnEqualShape(gy)>>)
        ELSE LET x_is_scalar == is_scalar_shape(x_shape_)
                 x_shape == IF x_is_scalar
                            THEN [k \in 1..Len(gy_shape) |-> 1]
                            ELSE x_shape_
                 st == FoldLoop(0, Min(Len(x_shape), Len(gy_shape)),
                                x_shape, gy, x_is_scalar,
                                FoldState(None, FALSE))
             IN  IF st.panicked \/ ~st.folded.some
                 THEN Panicked
                 ELSE Returned(<<Ok(st.folded.arr)>>)

\* ------------------------------------------ PreprocessBinOpGradGrad::compute
RECURSIVE ExpandScalar(_, _)
\* for &axis in target_shape.iter() { gy = expand_dims_view(gy, axis) }
\* (lines 115-119): each ELEMENT of the target shape is used as the
\* insertion point. FALSE in `fits`: expand_dims_view panicked.
ExpandScalar(gy, axes) ==
    IF axes = <<>> THEN [fits |-> TRUE, arr |-> gy]
    ELSE IF Head(axes) <= Len(gy.shape)
         THEN ExpandScalar(expand_dims(gy, Head(axes)), Tail(axes))
         ELSE [fits |-> FALSE, arr |-> NullArr]

\* Inputs: [gy, target_shape].
PreprocessBinOpGradGrad_compute(gy, xs1) ==
    LET target_shape == vec_as_shape(xs1)
    IN  IF gy.shape = target_shape
        THEN Returned(<<Delegate(0)>>)
        ELSE LET gy_is_scalar == is_scalar_shape(gy.shape)
                 view == IF gy_is_scalar
                         THEN ExpandScalar(gy, target_shape)
                         ELSE [fits |-> TRUE, arr |-> gy]
             IN  IF ~view.fits THEN Panicked
                 ELSE IF CanBroadcast(view.arr.shape, target_shape)
                      THEN Returned(<<Ok(broadcast(view.arr, target_shape))>>)
                      ELSE Panicked

\* The runtime's resolution of a result: a delegate marker stands for the
\* value of the input it points at.
Resolve(ret, inputs) ==
    IF ret.tag = "Delegate" THEN inputs[ret.to + 1] ELSE ret.arr

\* ------------------------------------------------------- graph nodes
\* A Tensor: its op, its ordered inputs, its optional shape tensor (<<>> or
\* <<node>>) and, for a leaf, the name its value is stored under.
NoNode == [op |-> "", inputs |-> <<>>, shape |-> <<>>, name |-> ""]
Leaf(name) == [op |-> "Leaf", inputs |-> <<>>, shape |-> <<>>, name |-> name]

\* Tensor::builder().set_inputs(inputs).set_shape(shape).build(op)
Build(op, inputs, shape) ==
    [op |-> op, inputs |-> inputs, shape |-> shape, name |-> ""]

\* Tensor::shape(): a node computing the shape of x.
Tensor_shape(x) == Build("Shape", <<x>>, <<>>)

\* ops::neg
ops_neg(x) == Build("Neg", <<x>>, <<>>)

\* Option<Tensor>
NoGrad == <<>>
Grad(node) == <<node>>

\* Reduce gy if broadcast occurred in the forward path (lines 310-322).
preprocess_gy(x0, x1, gy) ==
    LET shape0 == Tensor_shape(x0)
        shape1 == Tensor_shape(x1)
        gy0 == Build("PreprocessBinOpGrad", <<gy, shape0>>, <<shape0>>)
        gy1 == Build("PreprocessBinOpGrad", <<gy, shape1>>, <<shape1>>)
    IN  <<gy0, gy1>>

\* AddOp::grad with no gradient for input 1.
AddOp_grad_FirstSlotOnly(gy, inputs, y) ==
    LET p == preprocess_gy(inputs[1], inputs[2], gy)
    IN  <<Grad(p[1]), NoGrad>>

\* AddOp::grad (lines 150-153)
AddOp_grad(gy, inputs, y) ==
    LET p == preprocess_gy(inputs[1], inputs[2], gy)
    IN  <<Grad(p[1]), Grad(p[2])>>

\* SubOp::grad (lines 176-179)
SubOp_grad(gy, inputs, y) ==
    LET p == preprocess_gy(inputs[1], inputs[2], gy)
    IN  <<Grad(p[1]), Grad(ops_neg(p[2]))>>

\* InplaceAddOp::grad (lines 248-251)
InplaceAddOp_grad(gy, inputs, y) ==
    LET p == preprocess_gy(inputs[1], inputs[2], gy)
    IN  <<Grad(p[1]), Grad(p[2])>>

\* InplaceSubOp::grad with the negation of input 1's gradient left out.
InplaceSubOp_grad_NoNeg(gy, inputs, y) ==
    LET p == preprocess_gy(inputs[1], inputs[2], gy)
    IN  <<Grad(p[1]), Grad(p[2])>>

\* InplaceSubOp::grad (lines 267-270)
InplaceSubOp_grad(gy, inputs, y) ==
    LET p == preprocess_gy(inputs[1], inputs[2], gy)
    IN  <<Grad(p[1]), Grad(ops_neg(p[2]))>>

\* InplaceMulOp::grad propagating gy the way the in-place add does.
InplaceMulOp_grad_LikeAdd(gy, inputs, y) ==
    LET p == preprocess_gy(inputs[1], inputs[2], gy)
    IN  <<Grad(p[1]), Grad(p[2])>>

\* InplaceMulOp::grad (lines 286-288)
InplaceMulOp_grad(gy, inputs, y) == <<NoGrad, NoGrad>>

\* InplaceDivOp::grad (lines 304-306)
InplaceDivOp_grad(gy, inputs, y) == <<NoGrad, NoGrad>>

\* Do broadcast (lines 82-88).
PreprocessBinOpGrad_grad(gy, inputs, y) ==
    LET x_shape == inputs[2]
        gx == Build("PreprocessBinOpGradGrad", <<gy, x_shape>>, <<>>)
    IN  <<Grad(gx), NoGrad>>

\* Lines 132-137.
PreprocessBinOpGradGrad_grad(gy, inputs, y) ==
    LET gx == Build("PreprocessBinOpGrad", <<inputs[1], gy>>, <<>>)
    IN  <<Grad(gx), NoGrad>>

\* op::Op::grad, dispatched on the node's op.
Op_grad(op, gy, inputs, y) ==
    CASE op = "Add" -> AddOp_grad(gy, inputs, y)
      [] op = "Sub" -> SubOp_grad(gy, inputs, y)
      [] op = "InplaceAdd" -> InplaceAddOp_grad(gy, inputs, y)
      [] op = "InplaceSub" -> InplaceSubOp_grad(gy, inputs, y)
      [] op = "InplaceMul" -> InplaceMulOp_grad(gy, inputs, y)
      [] op = "InplaceDiv" -> InplaceDivOp_grad(gy, inputs, y)
      [] op = "PreprocessBinOpGrad" -> PreprocessBinOpGrad_grad(gy, inputs, y)
      [] op = "PreprocessBinOpGradGrad" ->
             PreprocessBinOpGradGrad_grad(gy, inputs, y)

BinOps == {"Add", "Sub", "InplaceAdd", "InplaceSub", "InplaceMul",
           "InplaceDiv"}

\* The shape of the forward result of a binary op, or a panic of its
\* kernel. The underlying `lhs op rhs` and zip_mut_with broadcast the
\* right operand to the left operand's shape.
Shaped(shape) == [ok |-> TRUE, shape |-> shape]
KernelPanics == [ok |-> FALSE, shape |-> <<>>]
LhsOpRhs(lhs, rhs) == IF CanBroadcast(rhs, lhs) THEN Shaped(lhs)
                      ELSE KernelPanics

\* add_forward (impl_bin_op_forward, lines 413-443)
add_forward_shape(shape0, shape1) ==
    LET x0_is_scalar == shape0 = <<>> \/ shape0 = <<0>>
        x1_is_scalar == shape1 = <<>> \/ shape1 = <<0>>
    IN  IF x0_is_scalar /\ ~x1_is_scalar THEN Shaped(shape1)
        ELSE IF x1_is_scalar /\ ~x0_is_scalar THEN Shaped(shape0)
        ELSE IF ~x0_is_scalar /\ ~x1_is_scalar
             THEN IF Product(shape0) > Product(shape1)
                  THEN LhsOpRhs(shape0, shape1)
                  ELSE LhsOpRhs(shape1, shape0)
             ELSE LhsOpRhs(shape0, shape1)

\* SubOp::compute (lines 161-174)
sub_forward_shape(shape0, shape1) ==
    IF shape0 = <<>> THEN Shaped(shape1) ELSE LhsOpRhs(shape0, shape1)

\* Inplace*Op::compute: xs[0].zip_mut_with(x1, ..), delegated to input 0.
inplace_forward_shape(shape0, shape1) == LhsOpRhs(shape0, shape1)

ForwardShape(op, shape0, shape1) ==
    CASE op = "Add" -> add_forward_shape(shape0, shape1)
      [] op = "Sub" -> sub_forward_shape(shape0, shape1)
      [] OTHER -> inplace_forward_shape(shape0, shape1)

\* ---------------------------------------------------------- evaluation
Value(x) == [ok |-> TRUE, arr |-> x]
Failed == [ok |-> FALSE, arr |-> NullArr]

Negated(x) == NdArray(x.shape, [p \in 1..Len(x.data) |-> 0 - x.data[p]])
Summed(x, y) ==
    NdArray(x.shape, [p \in 1..Len(x.data) |-> x.data[p] + y.data[p]])

\* The value of a compute call with the given input values.
Computation(out, inputs) ==
    IF out.panicked THEN Failed ELSE Value(Resolve(out.rets[1], inputs))

RECURSIVE Eval(_, _)
\* The runtime: the inputs are evaluated first, then the node's compute is
\* called with their values and a delegate marker is resolved. A panic
\* anywhere fails the evaluation.
Eval(node, feeds) ==
    IF node.op = "Leaf" THEN Value(feeds[node.name])
    ELSE LET xs == [k \in 1..Len(node.inputs) |->
                        Eval(node.inputs[k], feeds)]
         IN  IF \E k \in 1..Len(xs) : ~xs[k].ok THEN Failed
             ELSE CASE node.op = "Shape" ->
                         Value(ShapeTensor(xs[1].arr.shape))
                    [] node.op = "Neg" -> Value(Negated(xs[1].arr))
                    [] node.op = "AddN" ->
                         IF xs[1].arr.shape = xs[2].arr.shape
                         THEN Value(Summed(xs[1].arr, xs[2].arr))
                         ELSE Failed
                    [] node.op = "PreprocessBinOpGrad" ->
                         Computation(
                             PreprocessBinOpGrad_compute(xs[1].arr,
                                                         xs[2].arr),
                             <<xs[1].arr, xs[2].arr>>)
                    [] node.op = "PreprocessBinOpGradGrad" ->
                         Computation(
                             PreprocessBinOpGradGrad_compute(xs[1].arr,
                                                             xs[2].arr),
                             <<xs[1].arr, xs[2].arr>>)

\* The gradient builder's accumulation for one input node of y: the
\* contributions of all the slots the node feeds, summed into one node.
Contributions(y, grads, x) ==
    {k \in 1..Len(grads) : y.inputs[k] = x /\ grads[k] # NoGrad}

Accumulated(y, grads, x) ==
    LET ks == Contributions(y, grads, x)
    IN  IF ks = {} THEN NoGrad
        ELSE IF Cardinality(ks) = 1
             THEN grads[CHOOSE k \in ks : TRUE]
             ELSE Grad(Build("AddN", <<grads[1][1], grads[2][1]>>, <<>>))

EvalAll(grads, feeds) ==
    [k \in 1..Len(grads) |->
        IF grads[k] = NoGrad THEN Failed ELSE Eval(grads[k][1], feeds)]

\* ------------------------------------------- the parts at rest
\* Each specification below moves one part of the model and keeps the
\* other two as they are here.
PipelineIdle ==
    /\ val = NullArr
    /\ operand_shape = <<>>
    /\ bcast_shape = <<>>
    /\ log = <<>>
    /\ status = "ready"

GradIdle ==
    /\ env = [x0 |-> NullArr, x1 |-> NullArr, gy |-> NullArr,
              ggy |-> NullArr, gggy |-> NullArr]
    /\ ynode = NoNode
    /\ gxs = <<>>
    /\ gvals = <<>>
    /\ dx = [wrt |-> "", grad |-> NoGrad, val |-> Failed]
    /\ slot = 0
    /\ ggxs = <<>>
    /\ ggvals = <<>>
    /\ gggxs = <<>>
    /\ gggvals = <<>>
    /\ pc = "leaves"

EmptyMap == [t \in {} |-> NullArr]

\* Context::new (lines 53-56)
ContextNew ==
    /\ variables = EmptyMap
    /\ outputs = EmptyMap
    /\ last = [fn |-> "new", node |-> "", arr |-> NullArr,
               panicked |-> FALSE,
               fed_before |-> "",
               pre_variables |-> EmptyMap, pre_outputs |-> EmptyMap]
    /\ crashed = FALSE

\* A usize value as the build computes it: ok, or an arithmetic panic.
Usize(v) == [ok |-> TRUE, v |-> v]
UsizePanic == [ok |-> FALSE, v |-> 0]

ConvIdle ==
    /\ build = "debug"
    /\ conv = [pad |-> 0, stride |-> 1, dilation |-> 1]
    /\ dims = [batch_size |-> 0, ych |-> 1, xch |-> 1, yh |-> 1, yw |-> 1,
               kh |-> 1, kw |-> 1]
    /\ xsize = [xh |-> UsizePanic, xw |-> UsizePanic]
    /\ kin = [gy |-> NullArr, w |-> NullArr, g |-> NullArr]
    /\ col_buf = <<>>
    /\ gx_buf = <<>>
    /\ wpc = <<>>
    /\ colw = <<>>
    /\ gxw = <<>>
    /\ kret = NullArr
    /\ gw_buf = <<>>
    /\ gw_init = {}
    /\ fi = 0
    /\ kpc = "idle"

\* ------------------------------------------------- the broadcast pipeline
\* One computed node: the op, its inputs, what compute came to (`out`) and
\* the value the runtime keeps for the node (NullArr after a panic).
Computed(op, gy, target, out) ==
    [op |-> op, gy |-> gy, target |-> target, out |-> out,
     value |-> IF out.panicked THEN NullArr
               ELSE Resolve(out.rets[1], <<gy, ShapeTensor(target)>>)]

Step(entry) ==
    /\ log' = Append(log, entry)
    /\ val' = IF entry.out.panicked THEN val ELSE entry.value
    /\ status' = IF entry.out.panicked THEN "panicked" ELSE "ready"
    /\ UNCHANGED <<operand_shape, bcast_shape, gvars, cvars, kvars>>

\* A PreprocessBinOpGrad node over [val, shape of the operand] is evaluated.
Reduce ==
    /\ status = "ready"
    /\ Len(log) < MaxSteps
    /\ Step(Computed("PreprocessBinOpGrad", val, operand_shape,
                     PreprocessBinOpGrad_compute(val, ShapeTensor(operand_shape))))

\* A PreprocessBinOpGradGrad node over [val, broadcast shape] is evaluated.
Expand ==
    /\ status = "ready"
    /\ Len(log) < MaxSteps
    /\ Step(Computed("PreprocessBinOpGradGrad", val, bcast_shape,
                     PreprocessBinOpGradGrad_compute(val,
                                                     ShapeTensor(bcast_shape))))

Init ==
    /\ GradIdle
    /\ ContextNew
    /\ ConvIdle
    /\ operand_shape \in Shapes
    /\ bcast_shape \in Shapes
    /\ val \in {Ramp(sh, seed) : sh \in {operand_shape, bcast_shape},
                                 seed \in 1..MaxSeed}
    /\ log = <<>>
    /\ status = "ready"

Next == Reduce \/ Expand

Spec == Init /\ [][Next]_vars

\* ------------------------------------------------ gradient construction
LeafNames == {"x0", "x1"}

\* y = op(i, j) is built over two of the leaves (possibly the same one
\* twice); the forward kernel accepts their shapes, and the output
\* gradient gy has the shape of y.
BuildOp(op, i, j, seed) ==
    LET out == ForwardShape(op, env[i].shape, env[j].shape)
    IN  /\ pc = "leaves"
        /\ out.ok
        /\ ynode' = Build(op, <<Leaf(i), Leaf(j)>>, <<>>)
        /\ env' = [env EXCEPT !.gy = Ramp(out.shape, seed)]
        /\ pc' = "built"
        /\ UNCHANGED <<gxs, gvals, dx, slot, ggxs, ggvals, gggxs, gggvals,
                       bvars, cvars, kvars>>

\* The gradient builder calls y's op: grad(gy, inputs, y).
Backward ==
    /\ pc = "built"
    /\ gxs' = Op_grad(ynode.op, Leaf("gy"), ynode.inputs, ynode)
    /\ pc' = "grad"
    /\ UNCHANGED <<env, ynode, gvals, dx, slot, ggxs, ggvals, gggxs, gggvals,
                   bvars, cvars, kvars>>

\* The gradient nodes are evaluated.
EvalGrads ==
    /\ pc = "grad"
    /\ gvals' = EvalAll(gxs, env)
    /\ pc' = "evaluated"
    /\ UNCHANGED <<env, ynode, gxs, dx, slot, ggxs, ggvals, gggxs, gggvals,
                   bvars, cvars, kvars>>

\* grad(y, x) for one leaf x: the contributions to x are accumulated and
\* the accumulated gradient is evaluated.
GradWrt(x) ==
    LET acc == Accumulated(ynode, gxs, Leaf(x))
    IN  /\ pc = "evaluated"
        /\ dx' = [wrt |-> x, grad |-> acc,
                  val |-> IF acc = NoGrad THEN Failed
                          ELSE Eval(acc[1], env)]
        /\ pc' = "accumulated"
        /\ UNCHANGED <<env, ynode, gxs, gvals, slot, ggxs, ggvals, gggxs,
                       gggvals, bvars, cvars, kvars>>

\* Second order: the gradient node of input slot k, a PreprocessBinOpGrad
\* node with a value, is differentiated; its incoming gradient ggy has the
\* shape of that value.
BackwardAgain(k, seed) ==
    /\ pc = "evaluated"
    /\ gxs[k] # NoGrad
    /\ gxs[k][1].op = "PreprocessBinOpGrad"
    /\ gvals[k].ok
    /\ slot' = k
    /\ env' = [env EXCEPT !.ggy = Ramp(gvals[k].arr.shape, seed)]
    /\ ggxs' = Op_grad(gxs[k][1].op, Leaf("ggy"), gxs[k][1].inputs,
                       gxs[k][1])
    /\ pc' = "grad2"
    /\ UNCHANGED <<ynode, gxs, gvals, dx, ggvals, gggxs, gggvals, bvars, cvars,
                   kvars>>

EvalGradGrads ==
    /\ pc = "grad2"
    /\ ggvals' = EvalAll(ggxs, env)
    /\ pc' = "evaluated2"
    /\ UNCHANGED <<env, ynode, gxs, gvals, dx, slot, ggxs, gggxs, gggvals,
                   bvars, cvars, kvars>>

\* Third order: the expansion node ggxs[1], a PreprocessBinOpGradGrad node
\* with a value, is differentiated; its incoming gradient gggy has the
\* shape of that value.
BackwardExpansion(seed) ==
    /\ pc = "evaluated2"
    /\ ggxs[1] # NoGrad
    /\ ggxs[1][1].op = "PreprocessBinOpGradGrad"
    /\ ggvals[1].ok
    /\ env' = [env EXCEPT !.gggy = Ramp(ggvals[1].arr.shape, seed)]
    /\ gggxs' = Op_grad(ggxs[1][1].op, Leaf("gggy"), ggxs[1][1].inputs,
                        ggxs[1][1])
    /\ pc' = "grad3"
    /\ UNCHANGED <<ynode, gxs, gvals, dx, slot, ggxs, ggvals, gggvals, bvars,
                   cvars, kvars>>

EvalExpansionGrads ==
    /\ pc = "grad3"
    /\ gggvals' = EvalAll(gggxs, env)
    /\ pc' = "evaluated3"
    /\ UNCHANGED <<env, ynode, gxs, gvals, dx, slot, ggxs, ggvals, gggxs,
                   bvars, cvars, kvars>>

GradInit ==
    /\ PipelineIdle
    /\ ContextNew
    /\ ConvIdle
    /\ \E sh0, sh1 \in Shapes :
           env = [x0 |-> Ramp(sh0, 1), x1 |-> Ramp(sh1, 1),
                  gy |-> NullArr, ggy |-> NullArr, gggy |-> NullArr]
    /\ ynode = NoNode
    /\ gxs = <<>>
    /\ gvals = <<>>
    /\ dx = [wrt |-> "", grad |-> NoGrad, val |-> Failed]
    /\ slot = 0
    /\ ggxs = <<>>
    /\ ggvals = <<>>
    /\ gggxs = <<>>
    /\ gggvals = <<>>
    /\ pc = "leaves"

GradNext ==
    \/ \E op \in BinOps, i, j \in LeafNames, seed \in 1..MaxSeed :
           BuildOp(op, i, j, seed)
    \/ Backward
    \/ EvalGrads
    \/ \E x \in LeafNames : GradWrt(x)
    \/ \E k \in 1..2, seed \in 1..MaxSeed : BackwardAgain(k, seed)
    \/ EvalGradGrads
    \/ \E seed \in 1..MaxSeed : BackwardExpansion(seed)
    \/ EvalExpansionGrads

SpecGrad == GradInit /\ [][GradNext]_vars

\* ------------------------------------------------------------- Context
\* The tensors the calls are made with: three placeholders (two with a
\* declared shape, one without), a variable and an op node.
Tensors == {"p1", "p2", "p3", "v1", "z"}

\* Tensor::op.name()
OpName(t) ==
    CASE t \in {"p1", "p2", "p3"} -> "PH"
      [] t = "v1" -> "Variable"
      [] t = "z" -> "Add"

\* Tensor::shape of a placeholder: Some(node holding the declared shape),
\* or None.
DeclaredShape(t) ==
    CASE t = "p1" -> Some(ShapeTensor(<<2>>))
      [] t = "p2" -> Some(ShapeTensor(<<1, 2>>))
      [] OTHER -> None

\* An array whose elements all equal c (ndarray::arr1(&[c, c])).
Full(shape, c) == NdArray(shape, [k \in 1..Product(shape) |-> c])

\* ops::ones(&shape), evaluated
ones(shape) == Full(shape, 1)

\* The arrays fed and declared: a ramp of shape [1, 2], and the constant
\* arrays of the documented example ([1., 1.], [2., 2.]).
FeedArrays == {Ramp(<<1, 2>>, 1)} \cup {Full(<<2>>, c) : c \in 1..MaxSeed}

\* HashMap::insert
Insert(map, key, value) ==
    [t \in DOMAIN map \cup {key} |-> IF t = key THEN value ELSE map[t]]

Context(vs, outs) == [variables |-> vs, outputs |-> outs]

\* What a call on the context comes to: whether it panicked, and the
\* context it leaves.
Call(panicked, ctx) == [panicked |-> panicked, ctx |-> ctx]

\* inner.eval(self) for a placeholder's shape node: the declared shape as
\* a rank-1 array. Whether this evaluation has cleared the transient
\* outputs when it returns is `cleared`.
Tensor_eval(inner, ctx, cleared) ==
    [value |-> inner,
     ctx |-> IF cleared THEN Context(ctx.variables, EmptyMap) ELSE ctx]

\* arr.shape().iter().map(|&a| a as f32).collect::<Vec<_>>()
ShapeAsVec(arr) == arr.shape

\* feed_input_unchecked inserting before the placeholder test has stopped
\* the call.
feed_input_unchecked_Unguarded(ctx, placeholder, arr) ==
    Call("PH" # OpName(placeholder),
         Context(ctx.variables, Insert(ctx.outputs, placeholder, Ok(arr))))

\* Context::feed_input_unchecked (lines 65-76)
feed_input_unchecked(ctx, placeholder, arr) ==
    IF "PH" # OpName(placeholder)
    THEN Call(TRUE, ctx)
    ELSE Call(FALSE, Context(ctx.variables,
                             Insert(ctx.outputs, placeholder, Ok(arr))))

\* feed_input without the comparison against the declared shape.
feed_input_NoShapeCheck(ctx, placeholder, arr, cleared) ==
    feed_input_unchecked(ctx, placeholder, arr)

\* Context::feed_input (lines 79-102)
feed_input(ctx, placeholder, arr, cleared) ==
    IF "PH" # OpName(placeholder)
    THEN Call(TRUE, ctx)
    ELSE LET shape == DeclaredShape(placeholder)
             ev == IF shape.some
                   THEN Tensor_eval(shape.arr, ctx, cleared)
                   ELSE [value |-> NullArr, ctx |-> ctx]
         IN  IF shape.some /\ ev.value.data # ShapeAsVec(arr)
             THEN Call(TRUE, ev.ctx)
             ELSE Call(FALSE,
                       Context(ev.ctx.variables,
                               Insert(ev.ctx.outputs, placeholder,
                                      Ok(arr))))

\* Context::variable (lines 105-110): the array is registered under the
\* new variable tensor.
variable(ctx, t, arr) ==
    Call(FALSE, Context(Insert(ctx.variables, t, arr), ctx.outputs))

Called(fn, t, arr, call) ==
    /\ ~crashed
    /\ last' = [fn |-> fn, node |-> t, arr |-> arr,
                panicked |-> call.panicked,
                fed_before |-> IF last.fn = "feed_input" /\ ~last.panicked
                               THEN last.node ELSE "",
                pre_variables |-> variables, pre_outputs |-> outputs]
    /\ variables' = call.ctx.variables
    /\ outputs' = call.ctx.outputs
    /\ crashed' = call.panicked
    /\ UNCHANGED <<bvars, gvars, kvars>>

FeedInput(t, arr, cleared) ==
    Called("feed_input", t, arr,
           feed_input(Context(variables, outputs), t, arr, cleared))

FeedInputUnchecked(t, arr) ==
    Called("feed_input_unchecked", t, arr,
           feed_input_unchecked(Context(variables, outputs), t, arr))

Variable(arr) ==
    /\ "v1" \notin DOMAIN variables
    /\ Called("variable", "v1", arr,
              variable(Context(variables, outputs), "v1", arr))

\* ndarray's `lhs + rhs`: rhs is broadcast to the shape of lhs (a panic
\* when it cannot be) and the elements are added.
ArrAdd(lhs, rhs) ==
    IF CanBroadcast(rhs.shape, lhs.shape)
    THEN LET r == broadcast(rhs, lhs.shape)
         IN  Returned(<<Ok(NdArray(lhs.shape,
                                   [p \in 1..Len(lhs.data) |->
                                       lhs.data[p] + r.data[p]]))>>)
    ELSE Panicked

\* add_forward keeping only its first operand.
add_forward_FirstOnly(x0, x1) == Returned(<<Ok(x0)>>)

\* add_forward (impl_bin_op_forward, lines 413-443), on values
add_forward(x0, x1) ==
    LET x0_is_scalar == x0.shape = <<>> \/ x0.shape = <<0>>
        x1_is_scalar == x1.shape = <<>> \/ x1.shape = <<0>>
    IN  IF x0_is_scalar /\ ~x1_is_scalar
        THEN Returned(<<Ok(NdArray(x1.shape,
                                   [p \in 1..Len(x1.data) |->
                                       x1.data[p] + x0.data[1]]))>>)
        ELSE IF x1_is_scalar /\ ~x0_is_scalar
        THEN Returned(<<Ok(NdArray(x0.shape,
                                   [p \in 1..Len(x0.data) |->
                                       x0.data[p] + x1.data[1]]))>>)
        ELSE IF ~x0_is_scalar /\ ~x1_is_scalar
             THEN IF Product(x0.shape) > Product(x1.shape)
                  THEN ArrAdd(x0, x1)
                  ELSE ArrAdd(x1, x0)
             ELSE ArrAdd(x0, x1)

\* What an evaluation against the context comes to: whether it failed,
\* the value, and the context it leaves.
Evaluated(panicked, value, ctx) ==
    [panicked |-> panicked, value |-> value, ctx |-> ctx]

\* z.eval(&mut ctx) for z = x + v + b of the documented example (lines
\* 26-36): x is the placeholder p1, v the variable v1, b = ones(&[2]). A
\* value the context holds for a node is reused; a placeholder without a
\* fed value fails the evaluation; the variable is read, never written.
\* When the evaluation returns, the transient outputs have been cleared
\* (`cleared`) or hold z's value.
Tensor_eval_z(ctx, cleared) ==
    LET done(value) ==
            Evaluated(FALSE, value,
                      IF cleared THEN Context(ctx.variables, EmptyMap)
                      ELSE Context(ctx.variables,
                                   Insert(ctx.outputs, "z", Ok(value))))
    IN  IF "z" \in DOMAIN ctx.outputs THEN done(ctx.outputs["z"].arr)
        ELSE IF "p1" \notin DOMAIN ctx.outputs
        THEN Evaluated(TRUE, NullArr, ctx)
        ELSE LET xv == add_forward(ctx.outputs["p1"].arr,
                                   ctx.variables["v1"])
                 xvb == add_forward(xv.rets[1].arr, ones(<<2>>))
             IN  IF xv.panicked THEN Evaluated(TRUE, NullArr, ctx)
                 ELSE IF xvb.panicked THEN Evaluated(TRUE, NullArr, ctx)
                 ELSE done(xvb.rets[1].arr)

\* z is evaluated; z exists once its variable v1 has been declared.
Evaluate(cleared) ==
    LET ev == Tensor_eval_z(Context(variables, outputs), cleared)
    IN  /\ "v1" \in DOMAIN variables
        /\ Called("eval", "z", ev.value, Call(ev.panicked, ev.ctx))

ContextInit == PipelineIdle /\ GradIdle /\ ContextNew /\ ConvIdle

ContextNext ==
    \/ \E t \in Tensors, arr \in FeedArrays, cleared \in BOOLEAN :
           FeedInput(t, arr, cleared)
    \/ \E t \in Tensors, arr \in FeedArrays : FeedInputUnchecked(t, arr)
    \/ \E arr \in FeedArrays : Variable(arr)
    \/ \E cleared \in BOOLEAN : Evaluate(cleared)

SpecContext == ContextInit /\ [][ContextNext]_vars

\* ------------------------------------------------ transposed convolution
\* usize arithmetic: a result out of range panics in a debug build and
\* wraps in a release build; a panic of an operand is the panic of the
\* expression.
UsizeMod == 2 ^ UsizeBits

usize_wrap(b, v) ==
    IF 0 <= v /\ v < UsizeMod THEN Usize(v)
    ELSE IF b = "debug" THEN UsizePanic
    ELSE Usize((v + UsizeMod * UsizeMod) % UsizeMod)

usize_add(b, x, y) ==
    IF x.ok /\ y.ok THEN usize_wrap(b, x.v + y.v) ELSE UsizePanic
usize_sub(b, x, y) ==
    IF x.ok /\ y.ok THEN usize_wrap(b, x.v - y.v) ELSE UsizePanic
usize_mul(b, x, y) ==
    IF x.ok /\ y.ok THEN usize_wrap(b, x.v * y.v) ELSE UsizePanic
usize_div(b, x, y) ==
    IF x.ok /\ y.ok /\ y.v # 0 THEN Usize(x.v \div y.v) ELSE UsizePanic

\* get_xh!, get_xw!:
\*   stride * (yh - 1) - 2 * pad + (dilation * (kh - 1) + 1)
get_xh(b, op, yh, kh) ==
    usize_add(b,
        usize_sub(b,
            usize_mul(b, Usize(op.stride),
                      usize_sub(b, Usize(yh), Usize(1))),
            usize_mul(b, Usize(2), Usize(op.pad))),
        usize_add(b,
            usize_mul(b, Usize(op.dilation),
                      usize_sub(b, Usize(kh), Usize(1))),
            Usize(1)))

\* get_yh!, get_yw!:
\*   (xh + 2 * pad - (dilation * (kh - 1) + 1)) / stride + 1
get_yh(b, op, xh, kh) ==
    usize_add(b,
        usize_div(b,
            usize_sub(b,
                usize_add(b, xh, usize_mul(b, Usize(2), Usize(op.pad))),
                usize_add(b,
                    usize_mul(b, Usize(op.dilation),
                              usize_sub(b, Usize(kh), Usize(1))),
                    Usize(1))),
            Usize(op.stride)),
        Usize(1))

\* The op structs' fields and the input shapes a call is made with.
ConvOps == [pad : 0..MaxPad, stride : 1..MaxStride, dilation : 1..MaxStride]
ConvDims == [batch_size : 0..MaxBatch, ych : 1..MaxCh, xch : 1..MaxCh,
             yh : 1..MaxSpatial, yw : 1..MaxSpatial,
             kh : 1..MaxSpatial, kw : 1..MaxSpatial]

RECURSIVE SeqSum(_)
SeqSum(seq) == IF seq = <<>> THEN 0 ELSE Head(seq) + SeqSum(Tail(seq))

\* sgemm(trans_a, trans_b, a, b, c, m, n, k, alpha, beta): row-major
\* C (m x n) = alpha * op(A) (m x k) * op(B) (k x n) + beta * C, where a, b
\* and c point at (0-based) offsets a_head, b_head and c_head of their
\* buffers. With beta = 0 the old C is not read. The buffer c afterwards.
sgemm(trans_a, trans_b, a, a_head, b, b_head, c, c_head, m, n, k, alpha, beta) ==
    LET A(i, p) == IF trans_a THEN a[a_head + p * m + i + 1]
                   ELSE a[a_head + i * k + p + 1]
        B(p, j) == IF trans_b THEN b[b_head + j * k + p + 1]
                   ELSE b[b_head + p * n + j + 1]
        dot(i, j) == SeqSum([p \in 1..k |-> A(i, p - 1) * B(p - 1, j)])
    IN  [e \in 1..Len(c) |->
            IF c_head < e /\ e <= c_head + m * n
            THEN alpha * dot((e - 1 - c_head) \div n, (e - 1 - c_head) % n)
                     + (IF beta = 0 THEN 0 ELSE beta * c[e])
            ELSE c[e]]

\* The positions (1-based) of the buffer c that this sgemm writes.
sgemm_writes(c_head, m, n) == (c_head + 1)..(c_head + m * n)

\* col2im: where the e-th (0-based) element of a column region lands in
\* the image region, as an offset from the region's head, or -1 when it
\* falls into the padding. The loop nest runs over channel, kernel_row,
\* kernel_col, output row, output column, in this order.
col2im_target(e, height, width, kh, kw, pad, stride, dilation) ==
    LET oh == (height + 2 * pad - (dilation * (kh - 1) + 1)) \div stride + 1
        ow == (width + 2 * pad - (dilation * (kw - 1) + 1)) \div stride + 1
        ox == e % ow
        oy == (e \div ow) % oh
        kj == (e \div (ow * oh)) % kw
        ki == (e \div (ow * oh * kw)) % kh
        c == e \div (ow * oh * kw * kh)
        row == ki * dilation + oy * stride - pad
        cl == kj * dilation + ox * stride - pad
    IN  IF 0 <= row /\ row < height /\ 0 <= cl /\ cl < width
        THEN c * height * width + row * width + cl
        ELSE 0 - 1

\* The number of elements of one column region, as col2im walks it.
col2im_len(channels, height, width, kh, kw, pad, stride, dilation) ==
    channels * kh * kw
        * ((height + 2 * pad - (dilation * (kh - 1) + 1)) \div stride + 1)
        * ((width + 2 * pad - (dilation * (kw - 1) + 1)) \div stride + 1)

\* col2im storing each element instead of adding it: of the elements that
\* land on one image element, the last one stays.
col2im_Overwrite(cl, col_head, channels, height, width, kh, kw, pad, stride, dilation, im, im_head) ==
    LET len == col2im_len(channels, height, width, kh, kw, pad, stride,
                          dilation)
        hits(t) == {e \in 1..len :
                       col2im_target(e - 1, height, width, kh, kw, pad,
                                     stride, dilation) = t - 1 - im_head}
    IN  [t \in 1..Len(im) |->
            IF hits(t) = {} THEN im[t]
            ELSE cl[col_head + CHOOSE e \in hits(t) :
                                   \A f \in hits(t) : f <= e]]

\* col2im(col, channels, height, width, kh, kw, pad.., stride.., dilation..,
\* im): every element of the column region is added to the image element
\* it belongs to. The buffer im afterwards.
col2im(cl, col_head, channels, height, width, kh, kw, pad, stride, dilation, im, im_head) ==
    LET len == col2im_len(channels, height, width, kh, kw, pad, stride,
                          dilation)
        tgt(e) == col2im_target(e, height, width, kh, kw, pad, stride,
                                dilation)
    IN  [t \in 1..Len(im) |->
            IF im_head < t /\ t <= im_head + channels * height * width
            THEN im[t] + SeqSum([e \in 1..len |->
                                    IF tgt(e - 1) = t - 1 - im_head
                                    THEN cl[col_head + e] ELSE 0])
            ELSE im[t]]

\* The positions (1-based) of the buffer im that this col2im writes.
col2im_writes(channels, height, width, kh, kw, pad, stride, dilation, im_head) ==
    LET len == col2im_len(channels, height, width, kh, kw, pad, stride,
                          dilation)
    IN  {im_head + col2im_target(e, height, width, kh, kw, pad, stride,
                                 dilation) + 1 :
            e \in {e \in 0..(len - 1) :
                      col2im_target(e, height, width, kh, kw, pad, stride,
                                    dilation) >= 0}}

\* Lines 57-63 and 111
num_elements_in_batch_gx == dims.xch * xsize.xh.v * xsize.xw.v
num_elements_in_batch_col == dims.xch * dims.kh * dims.kw * dims.yh * dims.yw
num_elements_in_batch_gy == dims.ych * dims.yh * dims.yw

\* gx_region_head of worker i with the batch stride of one channel only.
gx_region_head_OneChannel(i) == i * xsize.xh.v * xsize.xw.v

\* Lines 115-117: the heads of worker i's regions (0-based offsets).
gy_region_head(i) == i * num_elements_in_batch_gy
col_region_head(i) == i * num_elements_in_batch_col
gx_region_head(i) == i * num_elements_in_batch_gx

\* Whether get_xh!/get_xw! came to the sizes of the integers (a release
\* build may have wrapped to other values).
SizesWrapped(xh, xw) ==
    \/ xh.v # (dims.yh - 1) * conv.stride - 2 * conv.pad
                 + conv.dilation * (dims.kh - 1) + 1
    \/ xw.v # (dims.yw - 1) * conv.stride - 2 * conv.pad
                 + conv.dilation * (dims.kw - 1) + 1

\* Conv2DTranspose::compute, lines 21-69: the sizes of the output, then
\* the buffers: col uninitialised (modelled as zeros, and written before
\* it is read), gx zeroed. With wrapped sizes what the kernels do is not
\* defined by the source here; the call is followed no further.
Size ==
    LET xh == get_xh(build, conv, dims.yh, dims.kh)
        xw == get_xh(build, conv, dims.yw, dims.kw)
        ok == xh.ok /\ xw.ok /\ ~SizesWrapped(xh, xw)
        workers == 1..dims.batch_size
    IN  /\ kpc = "start"
        /\ xsize' = [xh |-> xh, xw |-> xw]
        /\ kpc' = IF ~(xh.ok /\ xw.ok) THEN "panicked"
                  ELSE IF ok THEN "forked" ELSE "undefined"
        /\ col_buf' = IF ok
                  THEN [e \in 1..(dims.batch_size * num_elements_in_batch_col)
                            |-> 0]
                  ELSE <<>>
        /\ gx_buf' = IF ok
                 THEN [e \in 1..(dims.batch_size * dims.xch * xh.v * xw.v)
                           |-> 0]
                 ELSE <<>>
        /\ wpc' = IF ok THEN [i \in workers |-> "sgemm"] ELSE <<>>
        /\ colw' = IF ok THEN [i \in workers |-> {}] ELSE <<>>
        /\ gxw' = IF ok THEN [i \in workers |-> {}] ELSE <<>>
        /\ UNCHANGED <<build, conv, dims, kin, kret, fvars, bvars, gvars,
                       cvars>>

\* Lines 118-129, worker i (0-based): col region = w^T * gy region.
Sgemm(i) ==
    /\ kpc = "forked"
    /\ wpc[i + 1] = "sgemm"
    /\ col_buf' = sgemm(TRUE, FALSE, kin.w.data, 0,
                    kin.gy.data, gy_region_head(i),
                    col_buf, col_region_head(i),
                    dims.kh * dims.kw * dims.xch, dims.yh * dims.yw,
                    dims.ych, 1, 0)
    /\ colw' = [colw EXCEPT ![i + 1] =
                   @ \cup sgemm_writes(col_region_head(i),
                                       dims.kh * dims.kw * dims.xch,
                                       dims.yh * dims.yw)]
    /\ wpc' = [wpc EXCEPT ![i + 1] = "col2im"]
    /\ UNCHANGED <<build, conv, dims, xsize, kin, gx_buf, gxw, kret, kpc,
                   fvars, bvars, gvars, cvars>>

\* Lines 130-144, worker i: the col region is scattered into the gx region.
Col2im(i) ==
    /\ kpc = "forked"
    /\ wpc[i + 1] = "col2im"
    /\ gx_buf' = col2im(col_buf, col_region_head(i), dims.xch, xsize.xh.v,
                    xsize.xw.v, dims.kh, dims.kw, conv.pad, conv.stride,
                    conv.dilation, gx_buf, gx_region_head(i))
    /\ gxw' = [gxw EXCEPT ![i + 1] =
                  @ \cup col2im_writes(dims.xch, xsize.xh.v, xsize.xw.v,
                                       dims.kh, dims.kw, conv.pad,
                                       conv.stride, conv.dilation,
                                       gx_region_head(i))]
    /\ wpc' = [wpc EXCEPT ![i + 1] = "done"]
    /\ UNCHANGED <<build, conv, dims, xsize, kin, col_buf, colw, kret, kpc,
                   fvars, bvars, gvars, cvars>>

\* Lines 145-149: all workers have finished (for_each returns); gx is
\* returned with shape (batch_size, xch, xh, xw).
Return ==
    /\ kpc = "forked"
    /\ \A i \in 1..dims.batch_size : wpc[i] = "done"
    /\ kret' = NdArray(<<dims.batch_size, dims.xch, xsize.xh.v,
                         xsize.xw.v>>, gx_buf)
    /\ kpc' = "returned"
    /\ UNCHANGED <<build, conv, dims, xsize, kin, col_buf, gx_buf, wpc, colw,
                   gxw, fvars, bvars, gvars, cvars>>

\* im2col(im, channels, height, width, kh, kw, pad.., stride.., dilation..,
\* col): the gather that col2im scatters back; an element of the column
\* region is the image element at its target, or 0 in the padding. The
\* buffer cl afterwards.
im2col(im, im_head, channels, height, width, kh, kw, pad, stride, dilation, cl, col_head) ==
    LET len == col2im_len(channels, height, width, kh, kw, pad, stride,
                          dilation)
        tgt(e) == col2im_target(e, height, width, kh, kw, pad, stride,
                                dilation)
    IN  [e \in 1..Len(cl) |->
            IF col_head < e /\ e <= col_head + len
            THEN IF tgt(e - 1 - col_head) >= 0
                 THEN im[im_head + tgt(e - 1 - col_head) + 1]
                 ELSE 0
            ELSE cl[e]]

\* Conv2DTransposeFilterGrad::compute, lines 193-202. gy_shape is the shape
\* of kin.g, x_shape that of kin.gy, k_shape that of kin.w.
FilterSizes(gy_shape, x_shape, k_shape) ==
    LET kh == k_shape[3]
        kw == k_shape[4]
        yh == get_yh(build, conv, Usize(gy_shape[3]), kh)
        yw == get_yh(build, conv, Usize(gy_shape[4]), kw)
    IN  [ok |-> yh.ok /\ yw.ok,
         num_elements_in_batch_g |->
             gy_shape[2] * gy_shape[3] * gy_shape[4],
         num_elements_in_batch_c |-> yh.v * yw.v * kh * kw * gy_shape[2],
         num_elements_in_batch_x |-> x_shape[2] * x_shape[3] * x_shape[4],
         m |-> x_shape[2],
         n |-> kh * kw * gy_shape[2],
         k |-> yh.v * yw.v]

\* The sizes for the inputs of the call under way.
filter_sizes == FilterSizes(kin.g.shape, kin.gy.shape, kin.w.shape)

\* Line 243: (i != 0) as i32 as f32
beta_of(i) == IF i # 0 THEN 1 ELSE 0

\* Lines 182-208: the call is entered with gy, the gradient of the
\* transposed convolution's output (shape (batch, xch, xh, xw)), x (shape
\* (batch, ych, yh, yw)) and the filter; cols and gw are allocated
\* uninitialised: gw holds whatever the memory held (`junk`).
FilterGradEnter(junk) ==
    LET xh == (dims.yh - 1) * conv.stride - 2 * conv.pad
                  + conv.dilation * (dims.kh - 1) + 1
        xw == (dims.yw - 1) * conv.stride - 2 * conv.pad
                  + conv.dilation * (dims.kw - 1) + 1
        g == Ramp(<<dims.batch_size, dims.xch, xh, xw>>, 1)
        sz == FilterSizes(g.shape, kin.gy.shape, kin.w.shape)
        workers == 1..dims.batch_size
    IN  /\ kpc = "start"
        /\ xh >= 1
        /\ xw >= 1
        /\ kin' = [kin EXCEPT !.g = g]
        /\ kpc' = IF sz.ok THEN "fg_forked" ELSE "panicked"
        /\ col_buf' = [e \in 1..(dims.batch_size * sz.num_elements_in_batch_c)
                          |-> 0]
        /\ gw_buf' = [e \in 1..Product(kin.w.shape) |-> junk]
        /\ gw_init' = {}
        /\ fi' = 0
        /\ wpc' = [i \in workers |-> "im2col"]
        /\ colw' = [i \in workers |-> {}]
        /\ UNCHANGED <<build, conv, dims, xsize, gx_buf, gxw, kret, bvars,
                       gvars, cvars>>

\* Lines 210-228, worker i (0-based): region i of gy is gathered into
\* region i of cols.
Im2col(i) ==
    /\ kpc = "fg_forked"
    /\ wpc[i + 1] = "im2col"
    /\ col_buf' = im2col(kin.g.data, i * filter_sizes.num_elements_in_batch_g,
                         kin.g.shape[2], kin.g.shape[3], kin.g.shape[4],
                         dims.kh, dims.kw, conv.pad, conv.stride,
                         conv.dilation, col_buf,
                         i * filter_sizes.num_elements_in_batch_c)
    /\ colw' = [colw EXCEPT ![i + 1] =
                   (i * filter_sizes.num_elements_in_batch_c + 1)
                       ..((i + 1) * filter_sizes.num_elements_in_batch_c)]
    /\ wpc' = [wpc EXCEPT ![i + 1] = "done"]
    /\ UNCHANGED <<build, conv, dims, xsize, kin, gx_buf, gxw, kret, kpc,
                   fvars, bvars, gvars, cvars>>

\* Lines 230-245, iteration i = fi of the sequential loop, entered once the
\* parallel loop has returned: gw = x region * (cols region)^T + beta * gw.
FilterSgemm ==
    /\ kpc = "fg_forked"
    /\ \A i \in 1..dims.batch_size : wpc[i] = "done"
    /\ fi < dims.batch_size
    /\ gw_buf' = sgemm(FALSE, TRUE, kin.gy.data,
                       fi * filter_sizes.num_elements_in_batch_x,
                       col_buf, fi * filter_sizes.num_elements_in_batch_c,
                       gw_buf, 0, filter_sizes.m, filter_sizes.n,
                       filter_sizes.k, 1, beta_of(fi))
    /\ gw_init' = gw_init \cup sgemm_writes(0, filter_sizes.m, filter_sizes.n)
    /\ fi' = fi + 1
    /\ UNCHANGED <<build, conv, dims, xsize, kin, col_buf, gx_buf, wpc, colw,
                   gxw, kret, kpc, bvars, gvars, cvars>>

\* Line 247: gw is returned with the filter's shape.
FilterReturn ==
    /\ kpc = "fg_forked"
    /\ \A i \in 1..dims.batch_size : wpc[i] = "done"
    /\ fi = dims.batch_size
    /\ kret' = NdArray(kin.w.shape, gw_buf)
    /\ kpc' = "fg_returned"
    /\ UNCHANGED <<build, conv, dims, xsize, kin, col_buf, gx_buf, wpc, colw,
                   gxw, fvars, bvars, gvars, cvars>>

\* The inputs of test_deconv (lines 347-354): all-ones filter (2,3,2,2)
\* and all-ones gy (2,2,2,2).
DeconvTestDims ==
    [batch_size |-> 2, ych |-> 2, xch |-> 3, yh |-> 2, yw |-> 2,
     kh |-> 2, kw |-> 2]

\* The input arrays for the shapes d: ramps, and ones for test_deconv.
ConvInputs(d) ==
    LET gy_shape == <<d.batch_size, d.ych, d.yh, d.yw>>
        f_shape == <<d.ych, d.xch, d.kh, d.kw>>
    IN  IF d = DeconvTestDims
        THEN [gy |-> ones(gy_shape), w |-> ones(f_shape), g |-> NullArr]
        ELSE [gy |-> Ramp(gy_shape, 1), w |-> Ramp(f_shape, 1),
              g |-> NullArr]

ConvInit ==
    /\ PipelineIdle
    /\ GradIdle
    /\ ContextNew
    /\ build \in {"debug", "release"}
    /\ conv \in ConvOps
    /\ dims \in ConvDims \cup {DeconvTestDims}
    /\ kin = ConvInputs(dims)
    /\ xsize = [xh |-> UsizePanic, xw |-> UsizePanic]
    /\ col_buf = <<>>
    /\ gx_buf = <<>>
    /\ wpc = <<>>
    /\ colw = <<>>
    /\ gxw = <<>>
    /\ kret = NullArr
    /\ gw_buf = <<>>
    /\ gw_init = {}
    /\ fi = 0
    /\ kpc = "start"

ConvNext ==
    \/ Size
    \/ \E i \in 0..(dims.batch_size - 1) : Sgemm(i)
    \/ \E i \in 0..(dims.batch_size - 1) : Col2im(i)
    \/ Return
    \/ \E junk \in {0, 1} : FilterGradEnter(junk)
    \/ \E i \in 0..(dims.batch_size - 1) : Im2col(i)
    \/ FilterSgemm
    \/ FilterReturn

SpecConv == ConvInit /\ [][ConvNext]_vars

\* ===================================================== reference notions
\* NumPy's rule: `from` broadcasts to `to` when, with the axes aligned at
\* the end, every axis of `from` is absent, of length 1, or equal.
BroadcastsTo(from, to) ==
    /\ Len(from) <= Len(to)
    /\ \A k \in 1..Len(from) :
           from[Len(from) + 1 - k] \in {1, to[Len(to) + 1 - k]}

RECURSIVE SumOver(_, _)
\* The sum of data[p] over the positions p in ps.
SumOver(data, ps) ==
    IF ps = {} THEN 0
    ELSE LET p == CHOOSE q \in ps : TRUE
         IN  data[p] + SumOver(data, ps \ {p})

\* The gradient of an operand of shape `shape` that was broadcast to g's
\* shape: each element is the sum of the elements of g it was expanded to.
SumToShape(g, shape) ==
    NdArray(shape,
            [q \in 1..Product(shape) |->
                SumOver(g.data,
                        {p \in 1..Product(g.shape) :
                            BroadcastIndex(p, shape, g.shape) = q})])

\* g is the broadcast of some array of shape `shape`.
IsBroadcastOf(g, shape) ==
    /\ BroadcastsTo(shape, g.shape)
    /\ \A p, q \in 1..Product(g.shape) :
           BroadcastIndex(p, shape, g.shape)
               = BroadcastIndex(q, shape, g.shape)
           => g.data[p] = g.data[q]

\* x with every element multiplied by k.
Scaled(x, k) == NdArray(x.shape, [p \in 1..Len(x.data) |-> k * x.data[p]])

IsReduce(e) == e.op = "PreprocessBinOpGrad"
IsExpand(e) == e.op = "PreprocessBinOpGradGrad"

\* log[k] reduced a gradient of shape s to shape a, and log[k+1] expanded
\* the result back to s.
ReduceThenExpand(k) ==
    /\ k + 1 <= Len(log)
    /\ IsReduce(log[k]) /\ IsExpand(log[k + 1])
    /\ log[k + 1].target = log[k].gy.shape
    /\ BroadcastsTo(log[k].target, log[k].gy.shape)
    /\ IsBroadcastOf(log[k].gy, log[k].target)

\* log[k] expanded an array of shape a to shape s, and log[k+1] reduced
\* the result back to a.
ExpandThenReduce(k) ==
    /\ k + 1 <= Len(log)
    /\ IsExpand(log[k]) /\ IsReduce(log[k + 1])
    /\ log[k + 1].target = log[k].gy.shape
    /\ BroadcastsTo(log[k].gy.shape, log[k].target)

\* ================================================================ claims

C2_NoBroadcastDelegates ==
    \A k \in 1..Len(log) :
        log[k].gy.shape = log[k].target
        => /\ ~log[k].out.panicked
           /\ log[k].out.rets = <<Delegate(0)>>

\* C2 witness: both ops have been computed on a gradient of the target's
\* shape.
C2_Witness ==
    \E j, k \in 1..Len(log) :
        /\ IsReduce(log[j]) /\ log[j].gy.shape = log[j].target
        /\ IsExpand(log[k]) /\ log[k].gy.shape = log[k].target
        /\ Len(log[j].target) > 0

\* C3 (as claimed): for every non-scalar operand shape that broadcasts to
\* gy's shape (axes of length 1, or absent leading axes) and differs from
\* it, the reduction op returns an array of the operand's shape whose
\* elements are the sums of gy over the expanded axes, and does not fail.
C3_ReduceToOperandShape ==
    \A k \in 1..Len(log) :
        LET e == log[k]
        IN  (/\ IsReduce(e)
             /\ e.target # <<>>
             /\ e.target # e.gy.shape
             /\ BroadcastsTo(e.target, e.gy.shape))
            => /\ ~e.out.panicked
               /\ e.out.rets = <<Ok(SumToShape(e.gy, e.target))>>

\* C4 (as claimed): for a scalar operand and a non-scalar gy, the
\* reduction op returns a zero-dimensional array holding the sum of all
\* the elements of gy.
C4_ScalarOperandGetsTotal ==
    \A k \in 1..Len(log) :
        LET e == log[k]
        IN  (IsReduce(e) /\ e.target = <<>> /\ e.gy.shape # <<>>)
            => /\ ~e.out.panicked
               /\ e.out.rets = <<Ok(SumToShape(e.gy, <<>>))>>

\* The gradient-construction claims speak of the states in which y's op
\* has returned from grad.
GradBuilt == pc \notin {"leaves", "built"}

\* gy reduced to the shape of x: the node preprocess_gy builds for x.
ReducedTo(x) ==
    [op |-> "PreprocessBinOpGrad",
     inputs |-> <<Leaf("gy"), Tensor_shape(x)>>,
     shape |-> <<Tensor_shape(x)>>,
     name |-> ""]

\* The operand whose gradient node was differentiated again, and the
\* shapes of that reduction node's output and of its first input.
ReducedOperand == ynode.inputs[slot].name

\* C5 (as claimed): whenever the forward pass broadcast, the gradient that
\* PreprocessBinOpGrad.grad builds for its first input is an expansion node
\* whose value is the incoming gradient expanded to the broadcast shape,
\* the shape of the reduction op's own first input.
C5_GradOfReduceExpands ==
    (pc = "evaluated2" /\ env[ReducedOperand].shape # env.gy.shape)
    => /\ ggxs[1] # NoGrad
       /\ ggxs[1][1].op = "PreprocessBinOpGradGrad"
       /\ ggvals[1].ok
       /\ CanBroadcast(env.ggy.shape, env.gy.shape)
       /\ ggvals[1].arr = broadcast(env.ggy, env.gy.shape)

\* C6: InplaceAddOp.grad builds the same two gradients as AddOp.grad, gy
\* reduced to each operand's shape, and InplaceSubOp.grad the same two as
\* SubOp.grad, the reduced gy for input 0 and the negated reduced gy for
\* input 1.
C6_InplaceGradParity ==
    GradBuilt
    => /\ ynode.op = "InplaceAdd"
          => gxs = AddOp_grad(Leaf("gy"), ynode.inputs, ynode)
       /\ ynode.op = "InplaceSub"
          => gxs = SubOp_grad(Leaf("gy"), ynode.inputs, ynode)
       /\ ynode.op \in {"Add", "InplaceAdd"}
          => gxs = <<Grad(ReducedTo(ynode.inputs[1])),
                     Grad(ReducedTo(ynode.inputs[2]))>>
       /\ ynode.op \in {"Sub", "InplaceSub"}
          => gxs = <<Grad(ReducedTo(ynode.inputs[1])),
                     Grad(ops_neg(ReducedTo(ynode.inputs[2])))>>

\* C6 witness: the gradients of an in-place subtraction of two leaves of
\* different shapes have been built and evaluated.
C6_Witness ==
    /\ pc = "evaluated"
    /\ ynode.op = "InplaceSub"
    /\ ynode.inputs = <<Leaf("x0"), Leaf("x1")>>
    /\ env.x0.shape # env.x1.shape
    /\ gvals[2].ok

\* C7: InplaceMulOp.grad and InplaceDivOp.grad return a two-slot result with
\* both slots none, so neither input receives a gradient.
C7_InplaceMulDivNoGrad ==
    (GradBuilt /\ ynode.op \in {"InplaceMul", "InplaceDiv"})
    => /\ gxs = <<NoGrad, NoGrad>>
       /\ pc = "accumulated" => dx.grad = NoGrad

\* C7 witness: the gradient of an in-place multiplication w.r.t. its
\* first input has been asked for.
C7_Witness ==
    /\ pc = "accumulated"
    /\ ynode.op = "InplaceMul"
    /\ ynode.inputs[1] = Leaf(dx.wrt)

\* C8: when x feeds both input slots of y = x + x, the gradient of y
\* w.r.t. x evaluates to twice the seed gradient gy.
C8_BothSlotsSummed ==
    (/\ pc = "accumulated"
     /\ ynode.op = "Add"
     /\ ynode.inputs = <<Leaf(dx.wrt), Leaf(dx.wrt)>>)
    => /\ dx.val.ok
       /\ dx.val.arr = Scaled(env.gy, 2)

\* C8 witness: the gradient of y = x + x w.r.t. a non-scalar x has been
\* evaluated.
C8_Witness ==
    /\ pc = "accumulated"
    /\ ynode.op = "Add"
    /\ ynode.inputs = <<Leaf(dx.wrt), Leaf(dx.wrt)>>
    /\ Len(env.gy.shape) = MaxRank
    /\ Product(env.gy.shape) > 1

\* The last call was one of the two feed functions.
FedLast == last.fn \in {"feed_input", "feed_input_unchecked"}

\* `map` binds tensor t to exactly the array arr.
Binds(map, t, arr) == t \in DOMAIN map /\ map[t] = Ok(arr)

\* C9: feed_input or feed_input_unchecked with a node whose op is not a
\* placeholder fails fatally, and leaves the transient output map and the
\* persisted variable map exactly as they were before the call.
C9_NonPlaceholderRejected ==
    (FedLast /\ OpName(last.node) # "PH")
    => /\ last.panicked
       /\ crashed
       /\ outputs = last.pre_outputs
       /\ variables = last.pre_variables

\* C9 witness: a non-placeholder was fed to a context that holds a fed
\* placeholder and a variable.
C9_Witness ==
    /\ FedLast
    /\ OpName(last.node) # "PH"
    /\ DOMAIN last.pre_outputs # {}
    /\ DOMAIN last.pre_variables # {}

\* C10: feed_input on a placeholder whose declared shape differs from the
\* fed array's shape fails fatally and does not bind the placeholder to
\* the array; with equal shapes, or no declared shape, the output map
\* afterwards maps the placeholder to exactly the fed array.
\* feed_input_unchecked binds the array whatever its shape.
C10_FeedShapeChecked ==
    (FedLast /\ OpName(last.node) = "PH")
    => LET declared == DeclaredShape(last.node)
           mismatch == /\ last.fn = "feed_input"
                       /\ declared.some
                       /\ vec_as_shape(declared.arr) # last.arr.shape
       IN  IF mismatch
           THEN /\ last.panicked
                /\ crashed
                /\ Binds(outputs, last.node, last.arr)
                   => Binds(last.pre_outputs, last.node, last.arr)
           ELSE /\ ~last.panicked
                /\ Binds(outputs, last.node, last.arr)

\* C10 witness: feed_input was called with an array of the wrong shape on
\* a placeholder that was bound to another array.
C10_Witness ==
    /\ last.fn = "feed_input"
    /\ OpName(last.node) = "PH"
    /\ DeclaredShape(last.node).some
    /\ vec_as_shape(DeclaredShape(last.node).arr) # last.arr.shape
    /\ last.node \in DOMAIN last.pre_outputs

\* The context maps every variable it mapped before the step, to the same
\* array.
VariablesKept ==
    \A t \in DOMAIN variables :
        t \in DOMAIN variables' /\ variables'[t] = variables[t]

\* The documented example: x fed [1, 1], v = [2, 2], b = ones, z not yet
\* evaluated.
DocExample ==
    /\ last.fn = "eval"
    /\ "z" \notin DOMAIN last.pre_outputs
    /\ Binds(last.pre_outputs, "p1", Full(<<2>>, 1))
    /\ last.pre_variables["v1"] = Full(<<2>>, 2)

\* C11: a variable declared in a context stays in the persisted variable
\* map with its initial value over every feed_input, feed_input_unchecked
\* and evaluation of a graph without in-place or variable-update op; in
\* the documented example z = x + v + b with x fed [1,1], v = [2,2] and
\* b = ones, evaluating z yields [4,4] and v is still mapped to [2,2].
C11_VariablesPersist ==
    [][/\ VariablesKept
       /\ DocExample' => /\ ~last'.panicked
                          /\ last'.arr = NdArray(<<2>>, <<4, 4>>)
                          /\ variables'["v1"] = Full(<<2>>, 2)]_vars

\* C11 witness: the documented example has been evaluated, in a context
\* that held a second fed placeholder.
C11_Witness ==
    /\ DocExample
    /\ ~last.panicked
    /\ "p2" \in DOMAIN last.pre_outputs
    /\ "v1" \in DOMAIN variables

\* The size of the transposed convolution's output along one axis, in
\* the integers.
OutputDim(op, input_dim, kernel_dim) ==
    (input_dim - 1) * op.stride - 2 * op.pad
        + op.dilation * (kernel_dim - 1) + 1

\* The forward convolution's size relation, in the integers.
ForwardDim(op, input_dim, kernel_dim) ==
    (input_dim + 2 * op.pad - (op.dilation * (kernel_dim - 1) + 1))
        \div op.stride + 1

Sized == kpc \notin {"idle", "start"}

\* C12: the output size of the transposed convolution is
\* (input_dim - 1) * stride - 2*pad + dilation*(kernel_dim - 1) + 1 for
\* every input_dim, kernel_dim, pad, stride and dilation (3 for input 2,
\* kernel 2, pad 0, stride 1, dilation 1), and the forward convolution's
\* size relation applied to it gives input_dim back.
C12_TransposedSize ==
    Sized =>
        /\ xsize.xh = Usize(OutputDim(conv, dims.yh, dims.kh))
        /\ xsize.xw = Usize(OutputDim(conv, dims.yw, dims.kw))
        /\ get_yh(build, conv, xsize.xh, dims.kh) = Usize(dims.yh)
        /\ get_yh(build, conv, xsize.xw, dims.kw) = Usize(dims.yw)
        /\ (conv = [pad |-> 0, stride |-> 1, dilation |-> 1]
               /\ dims.yh = 2 /\ dims.kh = 2) => xsize.xh = Usize(3)

\* The size arithmetic stays in range at every step: no subtraction goes
\* below zero.
SizeInRange(input_dim) == conv.stride * (input_dim - 1) >= 2 * conv.pad

C12_InRangeOnly ==
    (Sized /\ SizeInRange(dims.yh) /\ SizeInRange(dims.yw))
        => C12_TransposedSize

UnitConv == [pad |-> 0, stride |-> 1, dilation |-> 1]

\* The transposed convolution with pad 0, stride 1, dilation 1, from its
\* definition: the element at (b, c, r, q) is the sum, over the channels o
\* and the kernel offsets (ki, kj) whose window covers (r, q), of
\* w[o, c, ki, kj] * gy[b, o, r - ki, q - kj].
TransposedConv(gy, w) ==
    LET ych == w.shape[1]
        kh == w.shape[3]
        kw == w.shape[4]
        yh == gy.shape[3]
        yw == gy.shape[4]
        shape == <<gy.shape[1], w.shape[2], yh + kh - 1, yw + kw - 1>>
        term(b, c, r, q, t) ==
            LET o == t \div (kh * kw)
                ki == (t \div kw) % kh
                kj == t % kw
            IN  IF 0 <= r - ki /\ r - ki < yh /\ 0 <= q - kj /\ q - kj < yw
                THEN w.data[Ravel(<<o, c, ki, kj>>, w.shape) + 1]
                       * gy.data[Ravel(<<b, o, r - ki, q - kj>>, gy.shape) + 1]
                ELSE 0
    IN  NdArray(shape,
                [p \in 1..Product(shape) |->
                    LET idx == Unravel(p - 1, shape)
                    IN  SeqSum([t \in 1..(ych * kh * kw) |->
                                   term(idx[1], idx[2], idx[3], idx[4],
                                        t - 1)])])

\* C13: Conv2DTranspose.compute with pad 0, stride 1, dilation 1 returns an
\* array of shape (batch, xch, xh, xw) whose every element is the sum, over
\* the kernel windows covering its position and the ych channels, of filter
\* entry times gy entry; for the all-ones filter (2,3,2,2) and all-ones gy
\* (2,2,2,2) the shape is (2,3,3,3) and every 3x3 slice is
\* [2,4,2,4,8,4,2,4,2].
C13_TransposedConvValues ==
    (kpc = "returned" /\ conv = UnitConv) =>
        /\ kret.shape = <<dims.batch_size, dims.xch,
                          dims.yh + dims.kh - 1, dims.yw + dims.kw - 1>>
        /\ kret = TransposedConv(kin.gy, kin.w)
        /\ dims = DeconvTestDims =>
               /\ kret.shape = <<2, 3, 3, 3>>
               /\ \A sl \in 0..5 :
                      SubSeq(kret.data, 9 * sl + 1, 9 * sl + 9)
                          = <<2, 4, 2, 4, 8, 4, 2, 4, 2>>

\* C13 witness: the call of test_deconv has returned.
C13_Witness ==
    /\ kpc = "returned"
    /\ conv = UnitConv
    /\ dims = DeconvTestDims
    /\ kin.w = ones(<<2, 3, 2, 2>>)

\* The regions of worker i (0-based): the i-th stretch of each buffer,
\* after the first ColHead(i), GxHead(i) elements.
ColHead(i) == i * dims.xch * dims.kh * dims.kw * dims.yh * dims.yw
GxHead(i) == i * dims.xch * xsize.xh.v * xsize.xw.v
ColRegion(i) == (ColHead(i) + 1)..ColHead(i + 1)
GxRegion(i) == (GxHead(i) + 1)..GxHead(i + 1)

RECURSIVE InOrder(_, _)
\* The buffers [col, gx] after the workers 0..(n - 1) have run one after
\* the other, each to its end.
InOrder(n, zeroed) ==
    IF n = 0 THEN zeroed
    ELSE LET before == InOrder(n - 1, zeroed)
             c == sgemm(TRUE, FALSE, kin.w.data, 0, kin.gy.data,
                        (n - 1) * dims.ych * dims.yh * dims.yw,
                        before.col, ColHead(n - 1),
                        dims.kh * dims.kw * dims.xch, dims.yh * dims.yw,
                        dims.ych, 1, 0)
         IN  [col |-> c,
              gx |-> col2im(c, ColHead(n - 1), dims.xch,
                            xsize.xh.v, xsize.xw.v, dims.kh, dims.kw,
                            conv.pad, conv.stride, conv.dilation,
                            before.gx, GxHead(n - 1))]

\* C14: the worker for batch element i writes only the i-th region of the
\* column buffer and the i-th region of gx; the regions of distinct batch
\* elements do not overlap; and the array returned after all workers have
\* finished is the same for every interleaving of the workers.
C14_WorkersDisjoint ==
    kpc \in {"forked", "returned"} =>
        LET W == 0..(dims.batch_size - 1)
        IN  /\ \A i \in W : /\ colw[i + 1] \subseteq ColRegion(i)
                            /\ gxw[i + 1] \subseteq GxRegion(i)
            /\ \A i, j \in W :
                   i # j => /\ ColRegion(i) \cap ColRegion(j) = {}
                            /\ GxRegion(i) \cap GxRegion(j) = {}
                            /\ colw[i + 1] \cap colw[j + 1] = {}
                            /\ gxw[i + 1] \cap gxw[j + 1] = {}
            /\ kpc = "returned" =>
                   kret.data
                       = InOrder(dims.batch_size,
                                 [col |-> [e \in 1..Len(col_buf) |-> 0],
                                  gx |-> [e \in 1..Len(gx_buf) |-> 0]]).gx

\* C14 witness: of two workers with more than one channel, padding and a
\* stride, the second has finished before the first has begun.
C14_Witness ==
    /\ kpc = "forked"
    /\ dims.batch_size = 2
    /\ dims.xch > 1
    /\ conv.pad > 0
    /\ conv.stride > 1
    /\ wpc = <<"sgemm", "done">>
    /\ gxw[2] # {}

\* The PreprocessBinOpGrad nodes among the gradients `grads`: a gradient
\* that is such a node, or the negation of one.
ReduceNodes(grads) ==
    {grads[k][1] : k \in {k \in 1..Len(grads) :
                             /\ grads[k] # NoGrad
                             /\ grads[k][1].op = "PreprocessBinOpGrad"}}
    \cup {grads[k][1].inputs[1] :
             k \in {k \in 1..Len(grads) :
                       /\ grads[k] # NoGrad
                       /\ grads[k][1].op = "Neg"
                       /\ grads[k][1].inputs[1].op = "PreprocessBinOpGrad"}}

\* n reduces the gradient g: its inputs are [g, a node computing a shape].
ReducesGradient(n, g) ==
    /\ n.op = "PreprocessBinOpGrad"
    /\ Len(n.inputs) = 2
    /\ n.inputs[1] = g
    /\ n.inputs[2].op = "Shape"

ExpansionDifferentiated == pc \in {"grad3", "evaluated3"}

\* C15 (as claimed): every PreprocessBinOpGrad node built has the inputs
\* [gradient to reduce, node computing the target shape]; the node built by
\* PreprocessBinOpGradGrad.grad reduces the incoming gradient down to the
\* shape of the expansion op's first input, and evaluates to an array of
\* that shape.
C15_ReduceInputsAreGradAndShape ==
    /\ GradBuilt => \A n \in ReduceNodes(gxs) : ReducesGradient(n, Leaf("gy"))
    /\ ExpansionDifferentiated =>
           /\ gggxs[1] # NoGrad
           /\ ReducesGradient(gggxs[1][1], Leaf("gggy"))
           /\ gggxs[1][1].inputs[2] = Tensor_shape(ggxs[1][1].inputs[1])
    /\ pc = "evaluated3" =>
           /\ gggvals[1].ok
           /\ gggvals[1].arr.shape = env.ggy.shape

\* The nodes preprocess_gy builds do have these inputs.
C15_ForwardReduceNodesOnly ==
    GradBuilt => \A n \in ReduceNodes(gxs) : ReducesGradient(n, Leaf("gy"))

\* The last two calls were feed_input(p1, v1) and then feed_input(p2, v2),
\* for two distinct placeholders with a declared shape, and both returned.
FedTwo ==
    /\ last.fn = "feed_input"
    /\ last.fed_before # ""
    /\ ~last.panicked
    /\ last.node # last.fed_before
    /\ DeclaredShape(last.node).some
    /\ DeclaredShape(last.fed_before).some

\* C16 (as claimed): feeding is cumulative. After feed_input(p1, v1)
\* followed by feed_input(p2, v2) for two distinct placeholders with a
\* declared shape, the transient output map holds p1 -> v1 and p2 -> v2:
\* the shape check made for p2 neither removes nor changes p1's value.
C16_FeedingCumulative ==
    FedTwo =>
        /\ last.fed_before \in DOMAIN last.pre_outputs
        /\ last.fed_before \in DOMAIN outputs
        /\ outputs[last.fed_before] = last.pre_outputs[last.fed_before]
        /\ Binds(outputs, last.node, last.arr)

\* What does hold: the second placeholder is bound, and the first one is
\* either bound as before or no longer bound at all.
C16_SecondBoundFirstKeptOrCleared ==
    FedTwo =>
        /\ Binds(last.pre_outputs, last.fed_before,
                 last.pre_outputs[last.fed_before].arr)
        /\ Binds(outputs, last.node, last.arr)
        /\ \/ last.fed_before \notin DOMAIN outputs
           \/ outputs[last.fed_before] = last.pre_outputs[last.fed_before]

\* The filter gradient of the transposed convolution, from its
\* definition: the element at (o, c, ki, kj) is the sum, over the batch
\* elements b and the positions (oy, ox) of x, of x[b, o, oy, ox] times the
\* element of g that (oy, ox) reaches through the kernel offset (ki, kj).
FilterGradient(g, x, k_shape) ==
    LET yh == x.shape[3]
        yw == x.shape[4]
        term(o, c, ki, kj, t) ==
            LET b == t \div (yh * yw)
                oy == (t \div yw) % yh
                ox == t % yw
                r == oy * conv.stride + ki * conv.dilation - conv.pad
                q == ox * conv.stride + kj * conv.dilation - conv.pad
            IN  IF 0 <= r /\ r < g.shape[3] /\ 0 <= q /\ q < g.shape[4]
                THEN x.data[Ravel(<<b, o, oy, ox>>, x.shape) + 1]
                       * g.data[Ravel(<<b, c, r, q>>, g.shape) + 1]
                ELSE 0
    IN  NdArray(k_shape,
                [p \in 1..Product(k_shape) |->
                    LET idx == Unravel(p - 1, k_shape)
                    IN  SeqSum([t \in 1..(x.shape[1] * yh * yw) |->
                                   term(idx[1], idx[2], idx[3], idx[4],
                                        t - 1)])])

\* C17 (as claimed): Conv2DTransposeFilterGrad.compute returns the sum over
\* the batch elements of the per-element matrix product, and for every
\* batch size, 0 included, each element of the returned array has been
\* written by the op before it is returned.
C17_FilterGradWritten ==
    kpc = "fg_returned" =>
        /\ gw_init = 1..Len(kret.data)
        /\ kret = FilterGradient(kin.g, kin.gy, kin.w.shape)

\* With at least one batch element the claim holds.
C17_NonEmptyBatch ==
    (kpc = "fg_returned" /\ dims.batch_size > 0) => C17_FilterGradWritten

====
